---- MODULE Spec2Model ----
(***************************************************************************)
(* The spatial_app service: two tables (points, polygons) behind request   *)
(* handlers.  A handler that first loads a row (get_object_or_404) and     *)
(* later saves or deletes it is two steps, so that other requests can run  *)
(* in between, as they do between two statements of a Django view in       *)
(* autocommit mode.                                                        *)
(*                                                                         *)
(* Coordinates are integers in units of 1e-5 degree.  description,         *)
(* properties, created_at and updated_at decide nothing in a handler and   *)
(* are left out; so are the name filter, the area filters and the paging   *)
(* of the list views (the tables stay below one page of 20 rows).          *)
(***************************************************************************)
EXTENDS Integers, Sequences, FiniteSets, TLC

\* ------------------------------------------------------------ bounds
MaxIds == 2        \* ids (uuid4 values) handed out when requests are served in turn
MaxRaceIds == 1    \* ids handed out when requests overlap
MaxBulk == 2       \* items in a bulk array

\* ------------------------------------------------- program constants
LAT_MAX == 9000000      \* 90 degrees
LNG_MAX == 18000000     \* 180 degrees
MIN_AREA == 1           \* 1e-10 square degree = 1 square unit
DEFAULT_DISTANCE == 1000
SRID_3857_SCALE == 10   \* projected units per coordinate unit (Web Mercator
                        \* linearised at the equator)
AREA_PER_CENT == 10     \* units of the area column in 0.01 square metre
SQM_PER_SQKM == 1000000

Abs(x) == IF x < 0 THEN -x ELSE x

\* ----------------------------------------------------------- geometry
Pt(x, y) == [type |-> "Point", coords |-> <<x, y>>]
Poly(ring) == [type |-> "Polygon", coords |-> ring]

IsPoint(g) == g.type = "Point"
IsPolygon(g) == g.type = "Polygon"

\* (a - o) x (b - o)
Cross(o, a, b) == (a[1] - o[1]) * (b[2] - o[2]) - (a[2] - o[2]) * (b[1] - o[1])

RECURSIVE ShoelaceFrom(_, _)
ShoelaceFrom(ring, i) ==
    IF i >= Len(ring) THEN 0
    ELSE ring[i][1] * ring[i + 1][2] - ring[i + 1][1] * ring[i][2]
         + ShoelaceFrom(ring, i + 1)

\* twice the signed planar area of a ring
Shoelace2(ring) == ShoelaceFrom(ring, 1)

\* twice the planar area, in the ring's own unit
Area2(ring) == Abs(Shoelace2(ring))

OnSegment(a, b, p) ==
    /\ Cross(a, b, p) = 0
    /\ (IF a[1] <= b[1] THEN a[1] <= p[1] /\ p[1] <= b[1]
                         ELSE b[1] <= p[1] /\ p[1] <= a[1])
    /\ (IF a[2] <= b[2] THEN a[2] <= p[2] /\ p[2] <= b[2]
                         ELSE b[2] <= p[2] /\ p[2] <= a[2])

Sign(x) == IF x > 0 THEN 1 ELSE IF x < 0 THEN -1 ELSE 0

SegmentsMeet(a, b, c, d) ==
    \/ /\ Sign(Cross(a, b, c)) * Sign(Cross(a, b, d)) < 0
       /\ Sign(Cross(c, d, a)) * Sign(Cross(c, d, b)) < 0
    \/ OnSegment(a, b, c) \/ OnSegment(a, b, d)
    \/ OnSegment(c, d, a) \/ OnSegment(c, d, b)

\* edges i and j (i < j) of a closed ring of n vertices share an end point
AdjacentEdges(n, i, j) == j = i + 1 \/ (i = 1 /\ j = n - 1)

\* no two edges cross, touch or run back over each other
RingSimple(ring) ==
    LET n == Len(ring) IN
    \A i \in 1..(n - 1) : \A j \in (i + 1)..(n - 1) :
        IF AdjacentEdges(n, i, j)
        THEN IF j = i + 1
             THEN /\ ~OnSegment(ring[i], ring[i + 1], ring[j + 1])
                  /\ ~OnSegment(ring[j], ring[j + 1], ring[i])
             ELSE /\ ~OnSegment(ring[i], ring[i + 1], ring[j])
                  /\ ~OnSegment(ring[j], ring[j + 1], ring[i + 1])
        ELSE ~SegmentsMeet(ring[i], ring[i + 1], ring[j], ring[j + 1])

\* the rings of the requests
SqA == <<(<<0, 0>>), (<<0, 4>>), (<<4, 4>>), (<<4, 0>>), (<<0, 0>>)>>
SqB == <<(<<2, 2>>), (<<2, 6>>), (<<6, 6>>), (<<6, 2>>), (<<2, 2>>)>>
SqC == <<(<<10, 10>>), (<<10, 12>>), (<<12, 12>>), (<<12, 10>>), (<<10, 10>>)>>
\* a valid triangle of half a square unit
Sliver == <<(<<0, 0>>), (<<1, 0>>), (<<0, 1>>), (<<0, 0>>)>>
\* a self-crossing ring of non-zero signed area
Bowtie == <<(<<0, 0>>), (<<4, 4>>), (<<4, 0>>), (<<0, 2>>), (<<0, 0>>)>>

Rings == {SqA, SqB, SqC, Sliver, Bowtie}

\* closed, four or more vertices, simple
RingValid(ring) ==
    /\ Len(ring) >= 4
    /\ ring[1] = ring[Len(ring)]
    /\ RingSimple(ring)

\* RingValid of each ring of the requests, computed once
ValidRings == {ring \in Rings : RingValid(ring)}

\* GEOSGeometry.valid of a polygon with one ring
GeosValid(g) == g.coords \in ValidRings

\* GEOSGeometry.area, doubled
GeosArea2(g) == Area2(g.coords)

\* geometry.transform(3857, clone=True)
Transform3857(g) ==
    [type |-> g.type,
     coords |-> [i \in 1..Len(g.coords) |->
                    <<g.coords[i][1] * SRID_3857_SCALE,
                      g.coords[i][2] * SRID_3857_SCALE>>]]

\* transformed_geom.area
ProjectedArea(g) == GeosArea2(Transform3857(g)) \div 2

\* interior of a convex ring, boundary excluded (ST_Contains)
Contains(g, p) ==
    LET ring == g.coords
        s == Sign(Shoelace2(ring))
    IN /\ s # 0
       /\ \A i \in 1..(Len(ring) - 1) :
              Sign(Cross(ring[i], ring[i + 1], p.coords)) = s

\* some edge of convex a has all of b strictly on its outer side
Separated(a, b) ==
    LET s == Sign(Shoelace2(a)) IN
    \E i \in 1..(Len(a) - 1) :
        \A k \in 1..Len(b) : Sign(Cross(a[i], a[i + 1], b[k])) = -s

\* two convex rings share a point (ST_Intersects)
Intersects(g, h) ==
    /\ ~Separated(g.coords, h.coords)
    /\ ~Separated(h.coords, g.coords)

\* distance between two points in metres: Distance('location', p) and
\* D(m=...) use one measure; the taxicab measure stands for it
DistanceM(p, q) ==
    Abs(p.coords[1] - q.coords[1]) + Abs(p.coords[2] - q.coords[2])

\* ------------------------------------------------------------- state
VARIABLES points, polygons, nextId, inflight, last

vars == <<points, polygons, nextId, inflight, last>>

\* the database: both tables and the uuid source
Db == [points |-> points, polygons |-> polygons, nextId |-> nextId]

\* the requests that can overlap
Clients == {"c1", "c2"}

NoReq == [kind |-> "none"]
NoData == [none |-> TRUE]

\* what the last finished request was and what it answered
Response(op, status, id, data, body) ==
    [op |-> op, status |-> status, id |-> id, data |-> data, body |-> body]

Has(data, f) == f \in DOMAIN data

Remove(table, id) == [i \in DOMAIN table \ {id} |-> table[i]]

Put(table, id, row) == [i \in DOMAIN table \cup {id} |-> IF i = id THEN row ELSE table[i]]

\* ------------------------------------------------------- serializers
ValidateLocationNoLng(value) ==
    /\ IsPoint(value)
    /\ -LAT_MAX <= value.coords[2] /\ value.coords[2] <= LAT_MAX

\* SpatialPointDataSerializer.validate_location
ValidateLocation(value) ==
    /\ IsPoint(value)
    /\ -LAT_MAX <= value.coords[2] /\ value.coords[2] <= LAT_MAX
    /\ -LNG_MAX <= value.coords[1] /\ value.coords[1] <= LNG_MAX

\* SpatialPolygonDataSerializer.validate_geometry
ValidateGeometry(value) ==
    /\ IsPolygon(value)
    /\ GeosValid(value)
    /\ ~(GeosArea2(value) < 2 * MIN_AREA)

\* name: CharField, required, not blank (MinLengthValidator(1))
NameErrors(data, partial) ==
    IF Has(data, "name")
    THEN IF data.name = "" THEN {"name"} ELSE {}
    ELSE IF partial THEN {} ELSE {"name"}

\* serializer.errors of SpatialPointDataSerializer(data=data, partial=partial)
PointErrors(data, partial) ==
    NameErrors(data, partial)
    \cup (IF Has(data, "location")
          THEN IF ValidateLocation(data.location) THEN {} ELSE {"location"}
          ELSE IF partial THEN {} ELSE {"location"})

\* serializer.errors of SpatialPolygonDataSerializer(data=data, partial=partial)
PolygonErrors(data, partial) ==
    NameErrors(data, partial)
    \cup (IF Has(data, "geometry")
          THEN IF ValidateGeometry(data.geometry) THEN {} ELSE {"geometry"}
          ELSE IF partial THEN {} ELSE {"geometry"})

\* --------------------------------------------------------- the models
\* the fields a validated payload sets on an instance
Assign(inst, data) ==
    [f \in DOMAIN inst |-> IF Has(data, f) THEN data[f] ELSE inst[f]]

\* SpatialPointData(**validated_data): is_active defaults to True
NewPoint(data) ==
    Assign([name |-> "", location |-> Pt(0, 0), is_active |-> TRUE], data)

\* SpatialPolygonData(**validated_data): area is null unless given
NewPolygon(data) ==
    Assign([name |-> "", geometry |-> Poly(<<>>), area |-> 0, is_active |-> TRUE], data)

PolygonSaveKeepGivenArea(inst) ==
    IF inst.area = 0 THEN [inst EXCEPT !.area = ProjectedArea(inst.geometry)] ELSE inst

\* SpatialPolygonData.save, before super().save(): area from the geometry
PolygonSave(inst) ==
    IF Len(inst.geometry.coords) > 0
    THEN [inst EXCEPT !.area = ProjectedArea(inst.geometry)]
    ELSE inst

\* Model.save of an instance with its pk set: UPDATE of every column,
\* INSERT when no row has that pk
SaveRow(table, id, inst) == Put(table, id, inst)

\* serializer.save() of a new point
InsertPoint(db, data) ==
    [db EXCEPT !.points = SaveRow(db.points, db.nextId, NewPoint(data)),
               !.nextId = @ + 1]

\* serializer.save() of a new polygon
InsertPolygon(db, data) ==
    [db EXCEPT !.polygons = SaveRow(db.polygons, db.nextId, PolygonSave(NewPolygon(data))),
               !.nextId = @ + 1]

\* ------------------------------------------------------------ inputs
\* request bodies of the point endpoints
PointPayloads ==
    { [name |-> "a", location |-> Pt(0, 0)],
      [location |-> Pt(LNG_MAX, -LAT_MAX)],
      [is_active |-> FALSE],
      [name |-> "a", location |-> Pt(LNG_MAX + 1, 0)],
      [name |-> "a", location |-> Pt(0, LAT_MAX + 1)],
      [name |-> "", location |-> Pt(0, 0)],
      [name |-> "a", location |-> Poly(SqA)] }

\* request bodies of the polygon endpoints
PolygonPayloads ==
    { [name |-> "p", geometry |-> Poly(SqA)],
      [name |-> "p", geometry |-> Poly(SqB), area |-> 7],
      [geometry |-> Poly(SqC)],
      [is_active |-> FALSE],
      [area |-> 5],
      [name |-> "p", geometry |-> Poly(Sliver)],
      [name |-> "p", geometry |-> Poly(Bowtie)],
      [name |-> "p", geometry |-> Pt(0, 0)] }

\* how requests are scheduled and how many ids they may use up
SerialMode == [maxIds |-> MaxIds, serial |-> TRUE]
RaceMode == [maxIds |-> MaxRaceIds, serial |-> FALSE]

Idle == \A c \in Clients : inflight[c] = NoReq

\* the client that takes the next detail request: any free one
FreeClient == CHOOSE c \in Clients : inflight[c] = NoReq

\* a request may start
StartOk(m) == m.serial => Idle

CanCreate(m, db, n) == db.nextId + n <= m.maxIds + 1

SetDb(db) ==
    /\ points' = db.points
    /\ polygons' = db.polygons
    /\ nextId' = db.nextId

Init ==
    /\ points = [i \in {} |-> NoData]
    /\ polygons = [i \in {} |-> NoData]
    /\ nextId = 1
    /\ inflight = [c \in Clients |-> NoReq]
    /\ last = Response("none", 0, 0, NoData, NoData)

\* ------------------------------------------------- single-entity CRUD
PointCreateSaveFirst(db, data) ==
    [db |-> InsertPoint(db, data),
     status |-> IF PointErrors(data, FALSE) = {} THEN 201 ELSE 400]

\* POST of spatial_points_list_create: the database and the status after it
PointCreate(db, data) ==
    IF PointErrors(data, FALSE) = {}
    THEN [db |-> InsertPoint(db, data), status |-> 201]
    ELSE [db |-> db, status |-> 400]

\* POST of spatial_polygons_list_create
PolygonCreate(db, data) ==
    IF PolygonErrors(data, FALSE) = {}
    THEN [db |-> InsertPolygon(db, data), status |-> 201]
    ELSE [db |-> db, status |-> 400]

\* PUT/PATCH of spatial_point_detail on the instance loaded earlier
PointUpdate(db, id, inst, data, partial) ==
    IF PointErrors(data, partial) = {}
    THEN [db |-> [db EXCEPT !.points = SaveRow(db.points, id, Assign(inst, data))],
          status |-> 200]
    ELSE [db |-> db, status |-> 400]

\* PUT/PATCH of spatial_polygon_detail on the instance loaded earlier
PolygonUpdate(db, id, inst, data, partial) ==
    IF PolygonErrors(data, partial) = {}
    THEN [db |-> [db EXCEPT !.polygons =
                     SaveRow(db.polygons, id, PolygonSave(Assign(inst, data)))],
          status |-> 200]
    ELSE [db |-> db, status |-> 400]

PointsPost(m) ==
    \E data \in PointPayloads :
        LET r == PointCreate(Db, data) IN
        /\ StartOk(m)
        /\ r.status = 201 => CanCreate(m, Db, 1)
        /\ SetDb(r.db)
        /\ last' = IF r.status = 201
                   THEN Response("points_post", 201, nextId, data, NoData)
                   ELSE Response("points_post", r.status, 0, NoData, NoData)
        /\ UNCHANGED inflight

PolygonsPost(m) ==
    \E data \in PolygonPayloads :
        LET r == PolygonCreate(Db, data) IN
        /\ StartOk(m)
        /\ r.status = 201 => CanCreate(m, Db, 1)
        /\ SetDb(r.db)
        /\ last' = IF r.status = 201
                   THEN Response("polygons_post", 201, nextId, data, NoData)
                   ELSE Response("polygons_post", r.status, 0, NoData, NoData)
        /\ UNCHANGED inflight

\* get_object_or_404 of a detail view: the row is read into the request
DetailLoad(m, kind, table, op) ==
    \E id \in 1..m.maxIds :
        /\ StartOk(m)
        /\ \E c \in Clients : inflight[c] = NoReq
        /\ IF id \in DOMAIN table
           THEN /\ inflight' = [inflight EXCEPT ![FreeClient] =
                                   [kind |-> kind, id |-> id, inst |-> table[id]]]
                /\ last' = Response(op, 0, id, NoData, NoData)
           ELSE /\ last' = Response(op, 404, id, NoData, NoData)
                /\ UNCHANGED inflight
        /\ UNCHANGED <<points, polygons, nextId>>

PointDetailLoad(m) == DetailLoad(m, "point", points, "point_detail")

PolygonDetailLoad(m) == DetailLoad(m, "polygon", polygons, "polygon_detail")

Finish(c) == inflight' = [inflight EXCEPT ![c] = NoReq]

\* GET of a detail view: the loaded row is serialized
DetailGet(kind, op) ==
    \E c \in Clients :
        /\ inflight[c].kind = kind
        /\ last' = Response(op, 200, inflight[c].id, NoData, inflight[c].inst)
        /\ Finish(c)
        /\ UNCHANGED <<points, polygons, nextId>>

PointDetailGet == DetailGet("point", "point_get")

PolygonDetailGet == DetailGet("polygon", "polygon_get")

PointDetailUpdate ==
    \E c \in Clients, data \in PointPayloads, partial \in BOOLEAN :
        /\ inflight[c].kind = "point"
        /\ LET u == PointUpdate(Db, inflight[c].id, inflight[c].inst, data, partial) IN
           /\ SetDb(u.db)
           /\ last' = IF u.status = 200
                      THEN Response(IF partial THEN "point_patch" ELSE "point_put",
                                    200, inflight[c].id, data, NoData)
                      ELSE Response(IF partial THEN "point_patch" ELSE "point_put",
                                    u.status, inflight[c].id, NoData, NoData)
        /\ Finish(c)

PolygonDetailUpdate ==
    \E c \in Clients, data \in PolygonPayloads, partial \in BOOLEAN :
        /\ inflight[c].kind = "polygon"
        /\ LET u == PolygonUpdate(Db, inflight[c].id, inflight[c].inst, data, partial) IN
           /\ SetDb(u.db)
           /\ last' = IF u.status = 200
                      THEN Response(IF partial THEN "polygon_patch" ELSE "polygon_put",
                                    200, inflight[c].id, data, NoData)
                      ELSE Response(IF partial THEN "polygon_patch" ELSE "polygon_put",
                                    u.status, inflight[c].id, NoData, NoData)
        /\ Finish(c)

\* DELETE of a detail view: instance.delete() removes the row with that pk
PointDetailDelete ==
    \E c \in Clients :
        /\ inflight[c].kind = "point"
        /\ points' = Remove(points, inflight[c].id)
        /\ last' = Response("point_delete", 204, inflight[c].id, NoData, NoData)
        /\ Finish(c)
        /\ UNCHANGED <<polygons, nextId>>

PolygonDetailDelete ==
    \E c \in Clients :
        /\ inflight[c].kind = "polygon"
        /\ polygons' = Remove(polygons, inflight[c].id)
        /\ last' = Response("polygon_delete", 204, inflight[c].id, NoData, NoData)
        /\ Finish(c)
        /\ UNCHANGED <<points, nextId>>

\* ------------------------------------------------------------ queries
\* a query parameter: numeric text or other text
Num(n) == [numeric |-> TRUE, val |-> n]
Junk == [numeric |-> FALSE, val |-> 0]

\* float(request.GET.get(key, default)); ok is FALSE where float() raises
\* TypeError (the parameter is absent and has no default) or ValueError
ParseFloat(params, key, default) ==
    IF Has(params, key)
    THEN [ok |-> params[key].numeric, val |-> params[key].val]
    ELSE default

NoDefault == [ok |-> FALSE, val |-> 0]

\* str.lower() on the texts the is_active parameter takes here
Lower(text) == IF text = "TRUE" THEN "true" ELSE text

ListParams == { NoData, [is_active |-> "TRUE"], [is_active |-> "false"] }

\* GET of the list views: the rows, filtered by is_active when it is given
ListFilter(table, params) ==
    {id \in DOMAIN table :
        Has(params, "is_active") =>
            table[id].is_active = (Lower(params.is_active) = "true")}

ListView(m, table, op) ==
    \E params \in ListParams :
        /\ StartOk(m)
        /\ last' = Response(op, 200, 0, params, ListFilter(table, params))
        /\ UNCHANGED <<points, polygons, nextId, inflight>>

PointsList(m) == ListView(m, points, "points_list")

PolygonsList(m) == ListView(m, polygons, "polygons_list")

NearbyParams ==
    { [lat |-> Num(0), lng |-> Num(0)],
      [lat |-> Num(0), lng |-> Num(0), distance |-> Num(0)],
      [lat |-> Num(0), lng |-> Num(0), distance |-> Num(LNG_MAX + LAT_MAX)],
      [lat |-> Num(7 - LAT_MAX), lng |-> Num(LNG_MAX), distance |-> Num(7)],
      [lat |-> Num(7 - LAT_MAX), lng |-> Num(LNG_MAX), distance |-> Num(LNG_MAX + LAT_MAX)],
      [lat |-> Junk, lng |-> Num(0)],
      [lng |-> Num(0), distance |-> Num(7)] }

\* filter(location__dwithin=(search_point, D(m=distance)), is_active=True)
NearbySet(table, p, distance) ==
    {id \in DOMAIN table :
        /\ DistanceM(table[id].location, p) <= distance
        /\ table[id].is_active}

\* order_by('distance_m'): every order of the rows the database may give
OrderedByDistance(table, ids, p) ==
    {q \in [1..Cardinality(ids) -> ids] :
        /\ \A i, j \in DOMAIN q : i # j => q[i] # q[j]
        /\ \A i, j \in DOMAIN q :
              i < j => DistanceM(table[q[i]].location, p) <= DistanceM(table[q[j]].location, p)}

\* the rows of the answer: id and distance_meters
NearbyRows(table, q, p) ==
    [i \in DOMAIN q |->
        [id |-> q[i], distance_meters |-> DistanceM(table[q[i]].location, p)]]

\* what the database backend makes of a dwithin lookup that is given a
\* Distance object for a geodetic column that is no geography column:
\* PostGIS and SpatiaLite raise ValueError ("Only numeric values of degree
\* units are allowed on geographic DWithin queries"), Oracle takes the
\* metres.  The backend is a setting of the deployment.
DWithinBackends == {"degrees_only", "metres"}

\* spatial_points_nearby
PointsNearby(m) ==
    \E params \in NearbyParams, backend \in DWithinBackends :
        LET lat == ParseFloat(params, "lat", NoDefault)
            lng == ParseFloat(params, "lng", NoDefault)
            distance == ParseFloat(params, "distance", [ok |-> TRUE, val |-> DEFAULT_DISTANCE])
            p == Pt(lng.val, lat.val)
        IN /\ StartOk(m)
           /\ IF ~(lat.ok /\ lng.ok /\ distance.ok)
              THEN last' = Response("points_nearby", 400, 0, params, NoData)
              ELSE IF backend = "degrees_only"
              THEN last' = Response("points_nearby", 500, 0, params, NoData)
              ELSE \E q \in OrderedByDistance(points, NearbySet(points, p, distance.val), p) :
                      last' = Response("points_nearby", 200, 0, params, NearbyRows(points, q, p))
           /\ UNCHANGED <<points, polygons, nextId, inflight>>

ContainingParams ==
    { [lat |-> Num(1), lng |-> Num(1)],
      [lat |-> Num(3), lng |-> Num(3)],
      [lat |-> Num(4), lng |-> Num(3)],
      [lat |-> Num(11), lng |-> Num(11)],
      [lat |-> Num(1)] }

\* filter(geometry__contains=search_point, is_active=True)
ContainingSetAnyActivity(table, p) ==
    {id \in DOMAIN table : Contains(table[id].geometry, p)}

ContainingSet(table, p) ==
    {id \in DOMAIN table : Contains(table[id].geometry, p) /\ table[id].is_active}

\* spatial_polygons_containing_point
PolygonsContainingPoint(m) ==
    \E params \in ContainingParams :
        LET lat == ParseFloat(params, "lat", NoDefault)
            lng == ParseFloat(params, "lng", NoDefault)
        IN /\ StartOk(m)
           /\ last' = IF lat.ok /\ lng.ok
                      THEN Response("polygons_containing", 200, 0, params,
                                    ContainingSet(polygons, Pt(lng.val, lat.val)))
                      ELSE Response("polygons_containing", 400, 0, params, NoData)
           /\ UNCHANGED <<points, polygons, nextId, inflight>>

\* filter(geometry__intersects=polygon.geometry, is_active=True).exclude(id=polygon_id)
IntersectingSetWithSelf(table, id) ==
    {i \in DOMAIN table :
        Intersects(table[i].geometry, table[id].geometry) /\ table[i].is_active}

IntersectingSet(table, id) ==
    {i \in DOMAIN table :
        /\ Intersects(table[i].geometry, table[id].geometry)
        /\ table[i].is_active
        /\ i # id}

\* spatial_polygons_intersecting
PolygonsIntersecting(m) ==
    \E id \in 1..m.maxIds :
        /\ StartOk(m)
        /\ last' = IF id \in DOMAIN polygons
                   THEN Response("polygons_intersecting", 200, id, NoData,
                                 IntersectingSet(polygons, id))
                   ELSE Response("polygons_intersecting", 404, id, NoData, NoData)
        /\ UNCHANGED <<points, polygons, nextId, inflight>>

\* ------------------------------------------------------------ summary
AllRows(table) == DOMAIN table

\* filter(is_active=True)
ActiveRows(table) == {id \in DOMAIN table : table[id].is_active}

RECURSIVE SumArea(_, _)
SumArea(table, ids) ==
    IF ids = {} THEN 0
    ELSE LET id == CHOOSE i \in ids : TRUE
         IN table[id].area + SumArea(table, ids \ {id})

\* aggregate(total=Sum('area'))['total']: NULL over no rows
AggregateSum(table, ids) ==
    IF ids = {} THEN [null |-> TRUE, val |-> 0]
    ELSE [null |-> FALSE, val |-> SumArea(table, ids)]

\* total or 0
OrZero(v) == IF v.null \/ v.val = 0 THEN 0 ELSE v.val

\* round(n / d), halves to the even neighbour, for n >= 0
RoundHalfEven(n, d) ==
    LET q == n \div d
        r == n % d
    IN IF 2 * r < d THEN q
       ELSE IF 2 * r > d THEN q + 1
       ELSE IF q % 2 = 0 THEN q ELSE q + 1

\* the answer of the summary; both areas in hundredths, the timestamp left out
SummaryBody(pts, polys) ==
    LET total_area == OrZero(AggregateSum(polys, ActiveRows(polys))) IN
    [total_points |-> Cardinality(ActiveRows(pts)),
     total_polygons |-> Cardinality(ActiveRows(polys)),
     total_polygon_area_sqm |-> RoundHalfEven(total_area, AREA_PER_CENT),
     total_polygon_area_sqkm |-> RoundHalfEven(total_area, AREA_PER_CENT * SQM_PER_SQKM)]

\* spatial_analysis_summary
SpatialAnalysisSummary(m) ==
    /\ StartOk(m)
    /\ last' = Response("analysis_summary", 200, 0, NoData, SummaryBody(points, polygons))
    /\ UNCHANGED <<points, polygons, nextId, inflight>>

\* --------------------------------------------------------------- bulk
\* the items a bulk array is made of
PointBulkItems ==
    { [name |-> "a", location |-> Pt(0, 0)],
      [name |-> "a", location |-> Pt(LNG_MAX, -LAT_MAX), is_active |-> FALSE],
      [name |-> "a", location |-> Pt(0, LAT_MAX + 1)] }

PolygonBulkItems ==
    { [name |-> "p", geometry |-> Poly(SqA)],
      [name |-> "p", geometry |-> Poly(SqB), area |-> 7],
      [name |-> "p", geometry |-> Poly(Bowtie)] }

SeqsUpTo(S, n) == UNION {[1..k -> S] : k \in 0..n}

\* request.data of a bulk request: a mapping or not, and the mapping's
\* members, each a list or not
Envelopes(key, items) ==
    { [dict |-> FALSE, members |-> NoData],
      [dict |-> TRUE, members |-> NoData],
      [dict |-> TRUE, members |-> (key :> [list |-> FALSE, items |-> <<>>])] }
    \cup { [dict |-> TRUE, members |-> (key :> [list |-> TRUE, items |-> q])] :
             q \in SeqsUpTo(items, MaxBulk) }

ItemErrors(kind, data) ==
    IF kind = "point" THEN PointErrors(data, FALSE) ELSE PolygonErrors(data, FALSE)

InsertItem(kind, db, data) ==
    IF kind = "point" THEN InsertPoint(db, data) ELSE InsertPolygon(db, data)

Table(kind, db) == IF kind = "point" THEN db.points ELSE db.polygons

RECURSIVE BulkLoopStopAtError(_, _, _, _)
BulkLoopStopAtError(kind, items, i, acc) ==
    IF i > Len(items) THEN acc
    ELSE IF ItemErrors(kind, items[i]) = {}
         THEN LET db == InsertItem(kind, acc.db, items[i]) IN
              BulkLoopStopAtError(kind, items, i + 1,
                       [acc EXCEPT !.db = db,
                                   !.created = Append(@, [id |-> acc.db.nextId,
                                                          row |-> Table(kind, db)[acc.db.nextId]])])
         ELSE [acc EXCEPT !.errors = Append(@, [index |-> i - 1,
                                                errors |-> ItemErrors(kind, items[i])])]

\* for i, item in enumerate(items): save the valid ones, note the others
RECURSIVE BulkLoop(_, _, _, _)
BulkLoop(kind, items, i, acc) ==
    IF i > Len(items) THEN acc
    ELSE IF ItemErrors(kind, items[i]) = {}
         THEN LET db == InsertItem(kind, acc.db, items[i]) IN
              BulkLoop(kind, items, i + 1,
                       [acc EXCEPT !.db = db,
                                   !.created = Append(@, [id |-> acc.db.nextId,
                                                          row |-> Table(kind, db)[acc.db.nextId]])])
         ELSE BulkLoop(kind, items, i + 1,
                       [acc EXCEPT !.errors = Append(@, [index |-> i - 1,
                                                         errors |-> ItemErrors(kind, items[i])])])

BulkBody(acc) ==
    LET body == [created |-> Len(acc.created), errors |-> Len(acc.errors),
                 created_items |-> acc.created]
    IN IF acc.errors # <<>> THEN body @@ [validation_errors |-> acc.errors] ELSE body

BulkCreateListUnchecked(kind, key, db, data) ==
    IF ~data.dict \/ ~Has(data.members, key)
    THEN [db |-> db, status |-> 400, body |-> NoData]
    ELSE LET acc == BulkLoop(kind, data.members[key].items, 1,
                             [db |-> db, created |-> <<>>, errors |-> <<>>])
         IN [db |-> acc.db,
             status |-> IF acc.errors # <<>> THEN 207 ELSE 201,
             body |-> BulkBody(acc)]

\* spatial_points_bulk_create and spatial_polygons_bulk_create
BulkCreate(kind, key, db, data) ==
    IF ~data.dict \/ ~Has(data.members, key)
    THEN [db |-> db, status |-> 400, body |-> NoData]
    ELSE IF ~data.members[key].list
    THEN [db |-> db, status |-> 400, body |-> NoData]
    ELSE LET acc == BulkLoop(kind, data.members[key].items, 1,
                             [db |-> db, created |-> <<>>, errors |-> <<>>])
         IN [db |-> acc.db,
             status |-> IF acc.errors # <<>> THEN 207 ELSE 201,
             body |-> BulkBody(acc)]

PointEnvelopes == Envelopes("points", PointBulkItems)

PolygonEnvelopes == Envelopes("polygons", PolygonBulkItems)

EmptyDb == [points |-> [i \in {} |-> NoData], polygons |-> [i \in {} |-> NoData], nextId |-> 1]

\* the ids a bulk request uses up
IdsUsed(kind, key, data) == BulkCreate(kind, key, EmptyDb, data).db.nextId - 1

\* the bulk requests that use up no more than n ids, for each n
PointEnvelopesWithin ==
    [n \in 0..MaxBulk |-> {e \in PointEnvelopes : IdsUsed("point", "points", e) <= n}]

PolygonEnvelopesWithin ==
    [n \in 0..MaxBulk |-> {e \in PolygonEnvelopes : IdsUsed("polygon", "polygons", e) <= n}]

\* the ids left, counted up to MaxBulk
Room(m) == IF m.maxIds + 1 - nextId > MaxBulk THEN MaxBulk ELSE m.maxIds + 1 - nextId

BulkView(m, kind, key, envelopes, op) ==
    \E data \in envelopes :
        LET r == BulkCreate(kind, key, Db, data) IN
        /\ StartOk(m)
        /\ SetDb(r.db)
        /\ last' = Response(op, r.status, 0, data, r.body)
        /\ UNCHANGED inflight

PointsBulkCreate(m) == BulkView(m, "point", "points", PointEnvelopesWithin[Room(m)], "points_bulk")

PolygonsBulkCreate(m) == BulkView(m, "polygon", "polygons", PolygonEnvelopesWithin[Room(m)], "polygons_bulk")

\* ------------------------------------------------------ specifications
SerialNext ==
    \/ PointsPost(SerialMode)
    \/ PolygonsPost(SerialMode)
    \/ PointDetailLoad(SerialMode)
    \/ PolygonDetailLoad(SerialMode)
    \/ PointDetailGet
    \/ PolygonDetailGet
    \/ PointDetailUpdate
    \/ PolygonDetailUpdate
    \/ PointDetailDelete
    \/ PolygonDetailDelete
    \/ PointsBulkCreate(SerialMode)
    \/ PolygonsBulkCreate(SerialMode)

\* the handlers that write, requests served one at a time
Spec == Init /\ [][SerialNext]_vars

QueryNext ==
    \/ PointsPost(SerialMode)
    \/ PolygonsPost(SerialMode)
    \/ PointDetailLoad(SerialMode)
    \/ PolygonDetailLoad(SerialMode)
    \/ PointDetailGet
    \/ PolygonDetailGet
    \/ PointDetailUpdate
    \/ PolygonDetailUpdate
    \/ PointDetailDelete
    \/ PolygonDetailDelete
    \/ PointsList(SerialMode)
    \/ PolygonsList(SerialMode)
    \/ PointsNearby(SerialMode)
    \/ PolygonsContainingPoint(SerialMode)
    \/ PolygonsIntersecting(SerialMode)
    \/ SpatialAnalysisSummary(SerialMode)

\* the single-entity handlers and the queries, requests served one at a time
QuerySpec == Init /\ [][QueryNext]_vars

RaceNext ==
    \/ PolygonsPost(RaceMode)
    \/ PolygonsBulkCreate(RaceMode)
    \/ PolygonDetailLoad(RaceMode)
    \/ PolygonDetailGet
    \/ PolygonDetailUpdate
    \/ PolygonDetailDelete

\* requests on the polygon table that overlap: the steps of two requests
\* interleave
RaceSpec == Init /\ [][RaceNext]_vars

\* -------------------------------------------------------------- claims
BulkOps == {"points_bulk", "polygons_bulk"}
BulkKind(op) == IF op = "points_bulk" THEN "point" ELSE "polygon"
BulkKey(op) == IF op = "points_bulk" THEN "points" ELSE "polygons"
BulkTable(op) == IF op = "points_bulk" THEN points ELSE polygons

\* the envelope of a bulk request is malformed
BadEnvelope(op, data) ==
    \/ ~data.dict
    \/ ~Has(data.members, BulkKey(op))
    \/ ~data.members[BulkKey(op)].list

\* the fields of a row that a request body sets as given
GivenFields == {"name", "location", "geometry", "is_active"}

\* C1: a well-formed bulk request of N items answers created + errors = N,
\* lists in validation_errors exactly the positions of the invalid items in
\* ascending order, and has persisted every valid item, before or after an
\* invalid one, the created entities being listed in input order.
C1_BulkItemsIndependent ==
    (last.op \in BulkOps /\ ~BadEnvelope(last.op, last.data)) =>
        LET kind == BulkKind(last.op)
            items == last.data.members[BulkKey(last.op)].items
            N == Len(items)
            invalid == {i \in 1..N : ItemErrors(kind, items[i]) # {}}
            valid == SelectSeq(items, LAMBDA it : ItemErrors(kind, it) = {})
            body == last.body
            table == BulkTable(last.op)
        IN /\ last.status \in {201, 207}
           /\ body.created + body.errors = N
           /\ body.errors = Cardinality(invalid)
           /\ body.created = Len(body.created_items)
           /\ Has(body, "validation_errors") <=> invalid # {}
           /\ Has(body, "validation_errors") =>
                 /\ Len(body.validation_errors) = Cardinality(invalid)
                 /\ {body.validation_errors[j].index + 1 :
                        j \in DOMAIN body.validation_errors} = invalid
                 /\ \A j, k \in DOMAIN body.validation_errors :
                        j < k => body.validation_errors[j].index
                                    < body.validation_errors[k].index
           /\ Len(body.created_items) = Len(valid)
           /\ \A j \in DOMAIN body.created_items :
                 LET c == body.created_items[j] IN
                 /\ c.id \in DOMAIN table
                 /\ table[c.id] = c.row
                 /\ \A f \in DOMAIN valid[j] \cap GivenFields : c.row[f] = valid[j][f]
                 /\ \A k \in DOMAIN body.created_items :
                        j < k => c.id # body.created_items[k].id

\* a bulk request whose first item is invalid and whose second is valid
C1_Witness ==
    /\ last.op = "points_bulk"
    /\ last.status = 207
    /\ last.body.created = 1
    /\ last.body.errors = 1
    /\ last.body.validation_errors[1].index = 0
    /\ Len(last.data.members["points"].items) = 2
    /\ Cardinality(DOMAIN points) = 2

\* C2: a bulk request ends as all succeeded (no validation_errors), as
\* partial success (validation_errors present) or as a bad request; it is
\* a bad request exactly when the body is no mapping, lacks the array or
\* the array is no array, and then nothing is created or changed.
C2_BulkOutcomes ==
    [][last'.op \in BulkOps =>
          IF BadEnvelope(last'.op, last'.data)
          THEN /\ last'.status = 400
               /\ points' = points
               /\ polygons' = polygons
               /\ nextId' = nextId
          ELSE LET items == last'.data.members[BulkKey(last'.op)].items IN
               /\ last'.status \in {201, 207}
               /\ last'.status = 201 <=> ~Has(last'.body, "validation_errors")
               /\ last'.status = 201 <=> last'.body.created = Len(items)
               /\ last'.status = 207 <=> last'.body.errors > 0
               /\ nextId' = nextId + last'.body.created]_vars

\* a bulk request whose array is no array, rejected with rows in store
C2_Witness ==
    /\ last.op = "polygons_bulk"
    /\ last.status = 400
    /\ last.data.dict
    /\ Has(last.data.members, "polygons")
    /\ DOMAIN polygons # {}

\* C3: the area of every stored polygon is the projected area of the
\* geometry stored in the same row, whatever the requests supplied as area
\* and however updates of one id interleave.
C3_AreaMatchesGeometry ==
    \A id \in DOMAIN polygons :
        polygons[id].area = ProjectedArea(polygons[id].geometry)

\* a PATCH that supplied an area has saved while another request holds an
\* older geometry of the same row
C3_Witness ==
    /\ last.op = "polygon_patch"
    /\ last.status = 200
    /\ Has(last.data, "area")
    /\ last.id \in DOMAIN polygons
    /\ polygons[last.id].area # last.data.area
    /\ \E c \in Clients :
          /\ inflight[c] # NoReq
          /\ inflight[c].id = last.id
          /\ inflight[c].inst.geometry # polygons[last.id].geometry

ListOps == {"points_list", "polygons_list"}
ListTable(op) == IF op = "points_list" THEN points ELSE polygons
UpdateOps == {"point_put", "point_patch", "polygon_put", "polygon_patch"}
WantsActive(params) == Has(params, "is_active") /\ Lower(params.is_active) = "true"

\* what holds of deactivated rows in every answer but that of the list views
HiddenFromQueries ==
    /\ (last.op = "points_nearby" /\ last.status = 200) =>
          \A i \in DOMAIN last.body : points[last.body[i].id].is_active
    /\ (last.op = "polygons_containing" /\ last.status = 200) =>
          \A id \in last.body : polygons[id].is_active
    /\ (last.op = "point_detail" /\ last.status = 404) => last.id \notin DOMAIN points
    /\ (last.op = "polygon_detail" /\ last.status = 404) => last.id \notin DOMAIN polygons

\* C4: a deactivated entity is in no answer of the list views asked for
\* is_active=true, of the nearby query or of the containing query; the list
\* views asked without is_active still return it, as does get by id, which
\* answers NotFound only for an id that has no row.
C4_Deactivated ==
    /\ HiddenFromQueries
    /\ (last.op \in ListOps /\ WantsActive(last.data)) =>
          \A id \in last.body : ListTable(last.op)[id].is_active
    /\ (last.op \in ListOps /\ last.data = NoData) =>
          last.body = DOMAIN ListTable(last.op)

\* a deactivated polygon contains the point asked for and is not answered
C4_Witness ==
    /\ last.op = "polygons_containing"
    /\ last.status = 200
    /\ \E id \in DOMAIN polygons :
          /\ ~polygons[id].is_active
          /\ Contains(polygons[id].geometry, Pt(last.data.lng.val, last.data.lat.val))
          /\ id \notin last.body

\* C4 as stated: a deactivated entity is in no answer of the list views
\* asked without is_active, of the nearby query or of the containing query,
\* while get by id still finds it.
C4_AsStated ==
    /\ HiddenFromQueries
    /\ (last.op \in ListOps /\ last.data = NoData) =>
          \A id \in last.body : ListTable(last.op)[id].is_active

\* C5: two overlapping updates of one id take effect one after the other:
\* a successful PATCH changes no given field of the row that its body does
\* not mention, so it reverts nothing another update has written.
C5_UpdatesSerialized ==
    [][(last'.op = "polygon_patch" /\ last'.status = 200
           /\ last'.id \in DOMAIN polygons) =>
          \A f \in (GivenFields \cap DOMAIN polygons[last'.id]) \ DOMAIN last'.data :
              polygons'[last'.id][f] = polygons[last'.id][f]]_vars

\* C6: a create or update answered 400 leaves both tables as they were.
C6_RejectedChangesNothing ==
    [][(last'.status = 400 /\ last'.op \in UpdateOps \cup {"points_post", "polygons_post"}) =>
          /\ points' = points
          /\ polygons' = polygons
          /\ nextId' = nextId]_vars

\* an update of a stored polygon was answered 400
C6_Witness ==
    /\ last.op = "polygon_put"
    /\ last.status = 400
    /\ last.id \in DOMAIN polygons
    /\ DOMAIN points # {}

\* C7: every stored point has latitude in [-90, 90] and longitude in
\* [-180, 180]; every stored polygon is a valid polygon whose area in its
\* own coordinates is at least the minimum area.
C7_StoredGeometryValid ==
    /\ \A id \in DOMAIN points :
          LET g == points[id].location IN
          /\ IsPoint(g)
          /\ -LAT_MAX <= g.coords[2] /\ g.coords[2] <= LAT_MAX
          /\ -LNG_MAX <= g.coords[1] /\ g.coords[1] <= LNG_MAX
    /\ \A id \in DOMAIN polygons :
          LET g == polygons[id].geometry IN
          /\ IsPolygon(g)
          /\ RingValid(g.coords)
          /\ Area2(g.coords) >= 2 * MIN_AREA

\* an update was refused while a point on the edge of the ranges and a
\* polygon are stored
C7_Witness ==
    /\ last.op \in UpdateOps
    /\ last.status = 400
    /\ \E id \in DOMAIN points : points[id].location = Pt(LNG_MAX, -LAT_MAX)
    /\ DOMAIN polygons # {}

\* C8: a deleted entity is gone for good: an id that was handed out and has
\* no row never has a row again, so every later get, update or delete of
\* it answers NotFound and no list or query returns it.
C8_DeletedStaysDeleted ==
    [][\A id \in 1..(nextId - 1) :
          id \notin DOMAIN polygons => id \notin DOMAIN polygons']_vars

\* C9: the nearby query asked with numbers answers exactly the active
\* points whose distance to the query point is at most the distance asked
\* for (1000 when none is given), each once, with their distances, nearest
\* first; a larger distance asked from the same point answers a superset.
C9_NearbyExactOrdered ==
    (last.op = "points_nearby" /\ last.status # 400) =>
        LET p == Pt(last.data.lng.val, last.data.lat.val)
            d == IF Has(last.data, "distance") THEN last.data.distance.val
                 ELSE DEFAULT_DISTANCE
            rows == last.body
            ids == {rows[i].id : i \in DOMAIN rows}
        IN /\ last.status = 200
           /\ ids = {id \in DOMAIN points :
                        /\ points[id].is_active
                        /\ DistanceM(points[id].location, p) <= d}
           /\ Len(rows) = Cardinality(ids)
           /\ \A i \in DOMAIN rows :
                 rows[i].distance_meters = DistanceM(points[rows[i].id].location, p)
           /\ \A i, j \in DOMAIN rows :
                 i < j => rows[i].distance_meters <= rows[j].distance_meters
           /\ \A q \in NearbyParams :
                 (/\ DOMAIN q = {"lat", "lng", "distance"}
                  /\ q.lat = last.data.lat
                  /\ q.lng = last.data.lng
                  /\ q.distance.numeric
                  /\ q.distance.val >= d) =>
                    ids \subseteq NearbySet(points, p, q.distance.val)

\* C10: the intersecting query of a stored polygon answers exactly the
\* other active polygons whose geometry intersects its geometry: never the
\* polygon itself, always an active polygon of identical geometry and
\* other id; for an id without a row it answers NotFound.
C10_IntersectingExcludesSelf ==
    last.op = "polygons_intersecting" =>
        /\ last.status = 404 <=> last.id \notin DOMAIN polygons
        /\ last.status = 200 <=> last.id \in DOMAIN polygons
        /\ last.status = 200 =>
              /\ last.id \notin last.body
              /\ last.body = {i \in DOMAIN polygons \ {last.id} :
                                 /\ polygons[i].is_active
                                 /\ Intersects(polygons[i].geometry,
                                               polygons[last.id].geometry)}
              /\ \A i \in DOMAIN polygons \ {last.id} :
                    (polygons[i].is_active
                       /\ polygons[i].geometry = polygons[last.id].geometry)
                    => i \in last.body

\* another polygon of the same geometry was answered
C10_Witness ==
    /\ last.op = "polygons_intersecting"
    /\ last.status = 200
    /\ \E i \in last.body : polygons[i].geometry = polygons[last.id].geometry

====
